---- MODULE Spec2Model ----
(***************************************************************************)
(* State-machine model of class MotionEffects                              *)
(* (src/assets/js/motion-effects.js): the instance fields, the parts of    *)
(* the document and of the browser (frame scheduler, timers, observers)    *)
(* the class reads and writes, and one action per event handler or public  *)
(* method.                                                                 *)
(*                                                                         *)
(* Units: pointer coordinates, rectangles and viewport sizes are whole     *)
(* pixels; cursor and trail translations are in 1/Scale px; centerX,       *)
(* centerY and the pointer-to-centre distance are in 1/Scale px;           *)
(* background translations are in 1/(Scale*Scale) px, so that every        *)
(* product with a decimal factor of the source is an exact integer.        *)
(* Time is in milliseconds.                                                *)
(***************************************************************************)
EXTENDS Integers, Sequences, FiniteSets, TLC

\* ------------------------------------------------------------------------
\* Program constants
\* ------------------------------------------------------------------------
maxTrailLength == 8
mouseMoveThrottle == 8
NumLayers == 4
NumParticles == 20
NumShapes == 25
OffScreen == -100
RippleDelay == 600
ThemeDelay == 600
PageDelay == 50
SectionDelay == 100
ShimmerDelay == 2000
ViewportThreshold == 100
Scale == 1000
\* Date.now() when the constructor runs (any value >= mouseMoveThrottle)
T0 == 1000

\* ------------------------------------------------------------------------
\* Bounds of the model
\* ------------------------------------------------------------------------
\* largest frame-request handle handed out
MaxFrames == 3
\* ripple nodes created in one run
MaxRipples == 2
\* listener sets wired on one element
MaxListeners == 2
\* timers pending at the same time
MaxTimers == 2

\* A nullable field holding a node is <<>> (null/undefined) or <<n>>, n the
\* node's modelled state.  A style property is <<>> (unset) or holds its value.
NULL == <<>>
Unset == <<>>

\* ------------------------------------------------------------------------
\* The host page: a fixed sample document.  Every element is a child of
\* body except btn (inside card) and link (inside box).
\* ------------------------------------------------------------------------
HostElems == {"card", "btn", "box", "link", "late", "sec", "grp", "lateSec", "main", "dash"}

\* elements in the document when the constructor runs
SetupAttached == {"card", "box", "sec", "grp", "main", "dash"}

\* top-level elements the host page inserts and removes after setup
Detachable == {"box", "late", "lateSec"}

Parent(e) == CASE e = "btn" -> "card" [] e = "link" -> "box" [] OTHER -> "body"

Root(e) == IF Parent(e) = "body" THEN e ELSE Parent(e)

Descendants(n) == {e \in HostElems : Parent(e) = n}

\* 'a, button, .btn, .nav-btn, .card, .kpi-card, input, select, .icon, .history-card-delete'
Matches(e) == e \in {"card", "btn", "link", "late"}

Interactive == {e \in HostElems : Matches(e)}

\* '.card, .kpi-card, .history-card'
IsCard(e) == e = "card"

\* '.animate-on-scroll'
IsAnimateOnScroll(e) == e \in {"sec", "lateSec"}

\* '.stagger-group'
IsStaggerGroup(e) == e = "grp"

ScrollTagged == {e \in HostElems : IsAnimateOnScroll(e) \/ IsStaggerGroup(e)}

\* '.main'
IsMain(e) == e = "main"

\* '.dashboard-section'
IsDashboardSection(e) == e = "dash"

\* getBoundingClientRect()
Rect(e) ==
  CASE e = "card" -> [left |-> 100, top |-> 100, width |-> 300, height |-> 200]
    [] e = "btn" -> [left |-> 120, top |-> 120, width |-> 30, height |-> 80]
    [] e = "link" -> [left |-> 10, top |-> 400, width |-> 60, height |-> 20]
    [] e = "late" -> [left |-> 10, top |-> 500, width |-> 50, height |-> 50]
    [] e = "sec" -> [left |-> 0, top |-> 50, width |-> 800, height |-> 100]
    [] e = "grp" -> [left |-> 0, top |-> 550, width |-> 800, height |-> 200]
    [] e = "lateSec" -> [left |-> 0, top |-> 60, width |-> 800, height |-> 100]
    [] OTHER -> [left |-> 0, top |-> 0, width |-> 800, height |-> 40]

\* inline style.position of the interactive elements in the page's markup
MarkupPosition(e) == IF e = "btn" THEN "absolute" ELSE ""

\* window.innerWidth, window.innerHeight when the constructor runs
SetupViewport == <<1000, 600>>

\* viewport sizes a resize event may report
Viewports == {<<1000, 600>>, <<1200, 900>>}

\* pointer positions (clientX, clientY) of mouse-move events
Points == {<<0, 40>>, <<200, 100>>}

\* the instants at which the environment delivers events
Instants == {T0, T0 + 4, T0 + 8, T0 + 12, T0 + 300, T0 + 600, T0 + 900, T0 + 2600}

MaxTime == T0 + 2600

\* nodes the class creates as children of body
TrailNodes == {<<"trail", i>> : i \in 1..maxTrailLength}

Max(a, b) == IF a >= b THEN a ELSE b

Rep(x, k) == [i \in 1..k |-> x]

VARIABLES
  \* environment; pointerOver is the set of page elements the pointer is over
  prefersReducedMotion, now, innerWidth, innerHeight, pointerOver,
  \* host document
  attached, classes, posStyle, cardSpot,
  \* listeners and observers registered by the class
  listeners, mutationObserver, ioConnected,
  \* nodes created by the class
  bodyNodes, ripples, nextRippleId,
  \* instance fields
  motionBackground, gridElement, layers, particles, floatingShapes,
  mouseX, mouseY, centerX, centerY, mouseVelocity, lastMouseX, lastMouseY,
  cursor, cursorDot, cursorVisible, cursorHover, cursorActive, cursorTrail,
  animatedElements, staggerGroups, animationFrameId, lastMouseMoveTime,
  \* frame scheduler and timers
  rafPending, nextHandle, timers,
  \* history
  destroyed, lastSample, lastClick

envVars == <<prefersReducedMotion, now, innerWidth, innerHeight, pointerOver>>
docVars == <<attached, classes, posStyle, cardSpot>>
wireVars == <<listeners, mutationObserver, ioConnected>>
nodeVars == <<bodyNodes, ripples, nextRippleId>>
bgVars == <<motionBackground, gridElement, layers, particles, floatingShapes>>
pointerVars == <<mouseX, mouseY, mouseVelocity, lastMouseX, lastMouseY, lastMouseMoveTime>>
centerVars == <<centerX, centerY>>
cursorVars == <<cursor, cursorDot, cursorTrail>>
flagVars == <<cursorVisible, cursorHover, cursorActive>>
scrollVars == <<animatedElements, staggerGroups>>
frameVars == <<animationFrameId, rafPending, nextHandle>>
histVars == <<destroyed, lastSample, lastClick>>

vars == <<envVars, docVars, wireVars, nodeVars, bgVars, pointerVars, centerVars,
          cursorVars, flagVars, scrollVars, frameVars, timers, histVars>>

\* ------------------------------------------------------------------------
\* Document queries
\* ------------------------------------------------------------------------
InDocument(att, e) == Root(e) \in att

\* document.querySelectorAll(sel), matching the set of the page's elements
\* the selector matches
QueryAll(att, matching) == {e \in matching : InDocument(att, e)}

AddClass(cl, n, c) == [cl EXCEPT ![n] = @ \cup {c}]

RemoveClass(cl, n, c) == [cl EXCEPT ![n] = @ \ {c}]

AddClassAll(cl, ns, c) == [n \in DOMAIN cl |-> IF n \in ns THEN cl[n] \cup {c} ELSE cl[n]]

\* ------------------------------------------------------------------------
\* Per-frame arithmetic
\* ------------------------------------------------------------------------
\* parseFloat(v) || fallback : v is a pixel length or unset (NaN); 0 and NaN
\* are falsy
ParseFloatOr(v, fallback) == IF v = Unset THEN fallback ELSE IF v[1] = 0 THEN fallback ELSE v[1]

\* current + (target - current) * tenths/10, current and target in px, the
\* result in 1/Scale px
Smooth(current, target, tenths) == current * Scale + ((target - current) * tenths * Scale) \div 10

\* mutant: the trail update leaving the first dot where it was
UpdateCursorTrailNoHead(trail, x, y) ==
  [i \in 1..Len(trail) |->
    IF i = 1
      THEN trail[i]
      ELSE [trail[i] EXCEPT !.transform =
              <<Smooth(ParseFloatOr(trail[i].left, x), ParseFloatOr(trail[i - 1].left, x), 3),
                Smooth(ParseFloatOr(trail[i].top, y), ParseFloatOr(trail[i - 1].top, y), 3)>>]]

\* updateCursorTrail(x, y)
UpdateCursorTrail(trail, x, y) ==
  [i \in 1..Len(trail) |->
    IF i = 1
      THEN [trail[i] EXCEPT !.transform = <<x * Scale, y * Scale>>]
      ELSE LET currentX == ParseFloatOr(trail[i].left, x)
               currentY == ParseFloatOr(trail[i].top, y)
               previousX == ParseFloatOr(trail[i - 1].left, x)
               previousY == ParseFloatOr(trail[i - 1].top, y)
           IN [trail[i] EXCEPT !.transform =
                 <<Smooth(currentX, previousX, 3), Smooth(currentY, previousY, 3)>>]]

\* updateCursor() on the fields f = [cursor, cursorDot, cursorTrail]
UpdateCursor(f, reduced, targetX, targetY) ==
  IF f.cursor = NULL \/ f.cursorDot = NULL \/ reduced
    THEN f
    ELSE LET currentX == ParseFloatOr(f.cursor[1].left, targetX)
             currentY == ParseFloatOr(f.cursor[1].top, targetY)
             newX == Smooth(currentX, targetX, 1)
             newY == Smooth(currentY, targetY, 1)
         IN [cursor |-> <<[f.cursor[1] EXCEPT !.transform = <<newX, newY>>]>>,
             cursorDot |-> <<[f.cursorDot[1] EXCEPT !.transform =
                               <<targetX * Scale, targetY * Scale>>]>>,
             cursorTrail |-> UpdateCursorTrail(f.cursorTrail, targetX, targetY)]

\* mutant: every layer moving like the first
LayerIntensityFlat(index) == 20

\* intensities, in 1/Scale; index is 0-based as in the source
LayerIntensity(index) == (index + 1) * 20
GridIntensity == 150
ParticleIntensity(index) == 5 + (index % 3) * 2
ShapeIntensity(index) == 30 + (index % 5) * 10

\* updateMotionBackground() on the fields
\* b = [gridElement, layers, particles, floatingShapes]; only the translate()
\* part of each transform is kept
UpdateMotionBackground(b, reduced, mx, my, cx, cy, velocity) ==
  IF Len(b.layers) = 0 \/ reduced
    THEN b
    ELSE LET distX == mx * Scale - cx + velocity[1] * 2 * Scale
             distY == my * Scale - cy + velocity[2] * 2 * Scale
         IN [gridElement |->
               IF b.gridElement = NULL THEN NULL
               ELSE <<(<<distX * GridIntensity, distY * GridIntensity>>)>>,
             layers |->
               [i \in 1..Len(b.layers) |->
                  <<distX * LayerIntensity(i - 1), distY * LayerIntensity(i - 1)>>],
             particles |->
               [i \in 1..Len(b.particles) |->
                  <<distX * ParticleIntensity(i - 1), distY * ParticleIntensity(i - 1)>>],
             floatingShapes |->
               [i \in 1..Len(b.floatingShapes) |->
                  <<distX * ShapeIntensity(i - 1), distY * ShapeIntensity(i - 1)>>]]

\* ------------------------------------------------------------------------
\* Construction: new MotionEffects() -> init()
\* ------------------------------------------------------------------------
\* createMotionBackground(): the fields it sets and the node it appends to body
CreateMotionBackground(reduced) ==
  IF reduced
    THEN [motionBackground |-> NULL, gridElement |-> NULL, layers |-> <<>>,
          particles |-> <<>>, floatingShapes |-> <<>>, appended |-> {}]
    ELSE [motionBackground |-> <<"motion-background">>,
          gridElement |-> <<Unset>>,
          layers |-> Rep(Unset, NumLayers),
          particles |-> Rep(Unset, NumParticles),
          floatingShapes |-> Rep(Unset, NumShapes),
          appended |-> {<<"bg", 0>>}]

\* setupInteractiveElements(): one listener set on every matched element in
\* the document
SetupInteractiveElements(att) ==
  [e \in Interactive |-> IF e \in QueryAll(att, Interactive) THEN 1 ELSE 0]

\* mutant: the cursor builder without its reduced-motion check
CreateCustomCursorAlways(reduced, att) ==
  [cursor |-> <<[left |-> <<OffScreen>>, top |-> <<OffScreen>>, transform |-> Unset]>>,
   cursorDot |-> <<[left |-> <<OffScreen>>, top |-> <<OffScreen>>, transform |-> Unset]>>,
   cursorTrail |-> Rep([left |-> Unset, top |-> Unset, transform |-> Unset], maxTrailLength),
   appended |-> {<<"cursor", 0>>, <<"cursorDot", 0>>} \cup TrailNodes,
   listeners |-> SetupInteractiveElements(att),
   mutationObserver |-> TRUE]

\* createCustomCursor(): the fields it sets, the nodes it appends to body,
\* the listeners it wires and whether it starts the mutation observer
CreateCustomCursor(reduced, att) ==
  IF reduced
    THEN [cursor |-> NULL, cursorDot |-> NULL, cursorTrail |-> <<>>, appended |-> {},
          listeners |-> [e \in Interactive |-> 0], mutationObserver |-> FALSE]
    ELSE [cursor |-> <<[left |-> <<OffScreen>>, top |-> <<OffScreen>>, transform |-> Unset]>>,
          cursorDot |-> <<[left |-> <<OffScreen>>, top |-> <<OffScreen>>, transform |-> Unset]>>,
          cursorTrail |-> Rep([left |-> Unset, top |-> Unset, transform |-> Unset], maxTrailLength),
          appended |-> {<<"cursor", 0>>, <<"cursorDot", 0>>} \cup TrailNodes,
          listeners |-> SetupInteractiveElements(att),
          mutationObserver |-> TRUE]

\* animatePageTransition(): the class it adds and the timer it starts
AnimatePageTransition(att, cl, t) ==
  LET mains == QueryAll(att, {e \in HostElems : IsMain(e)})
  IN [classes |-> AddClassAll(cl, mains, "page-transition"),
      timers |-> {[kind |-> "page", el |-> m, id |-> 0, due |-> t + PageDelay] : m \in mains}]

NoSample == [time |-> 0, point |-> <<0, 0>>, accepted |-> FALSE]
NoClick == [target |-> "", spawned |-> <<>>]

Init ==
  /\ prefersReducedMotion \in BOOLEAN
  /\ now = T0
  /\ innerWidth = SetupViewport[1]
  /\ innerHeight = SetupViewport[2]
  /\ pointerOver = {}
  /\ attached = SetupAttached
  /\ posStyle = [e \in Interactive |-> MarkupPosition(e)]
  /\ cardSpot = [e \in {x \in HostElems : IsCard(x)} |-> Unset]
  /\ LET bg == CreateMotionBackground(prefersReducedMotion)
         cc == CreateCustomCursor(prefersReducedMotion, attached)
         \* startAnimationLoop(): animate() runs once, synchronously
         uc == UpdateCursor([cursor |-> cc.cursor, cursorDot |-> cc.cursorDot,
                             cursorTrail |-> cc.cursorTrail],
                            prefersReducedMotion, 0, 0)
         ub == UpdateMotionBackground(
                 [gridElement |-> bg.gridElement, layers |-> bg.layers,
                  particles |-> bg.particles, floatingShapes |-> bg.floatingShapes],
                 prefersReducedMotion, 0, 0,
                 (innerWidth * Scale) \div 2, (innerHeight * Scale) \div 2, <<0, 0>>)
         pt == AnimatePageTransition(attached,
                 [n \in HostElems \cup {"body", "cursor", "cursorDot"} |-> {}], now)
     IN /\ motionBackground = bg.motionBackground
        /\ gridElement = ub.gridElement
        /\ layers = ub.layers
        /\ particles = ub.particles
        /\ floatingShapes = ub.floatingShapes
        /\ cursor = uc.cursor
        /\ cursorDot = uc.cursorDot
        /\ cursorTrail = uc.cursorTrail
        /\ bodyNodes = bg.appended \cup cc.appended
        /\ listeners = cc.listeners
        /\ mutationObserver = cc.mutationObserver
        /\ classes = pt.classes
        /\ timers = pt.timers
  /\ ripples = {}
  /\ nextRippleId = 1
  /\ mouseX = 0
  /\ mouseY = 0
  /\ centerX = (innerWidth * Scale) \div 2
  /\ centerY = (innerHeight * Scale) \div 2
  /\ mouseVelocity = <<0, 0>>
  /\ lastMouseX = 0
  /\ lastMouseY = 0
  /\ cursorVisible = TRUE
  /\ cursorHover = FALSE
  /\ cursorActive = FALSE
  \* setupScrollAnimations(): both node lists are snapshots, all observed
  /\ animatedElements = QueryAll(attached, {e \in HostElems : IsAnimateOnScroll(e)})
  /\ staggerGroups = QueryAll(attached, {e \in HostElems : IsStaggerGroup(e)})
  /\ ioConnected = TRUE
  /\ lastMouseMoveTime = 0
  \* the first animate() requested handle 1
  /\ animationFrameId = 1
  /\ rafPending = {1}
  /\ nextHandle = 2
  /\ destroyed = FALSE
  /\ lastSample = NoSample
  /\ lastClick = NoClick

\* ------------------------------------------------------------------------
\* Environment: the clock
\* ------------------------------------------------------------------------
AdvanceTime(t) ==
  /\ t > now
  /\ t <= MaxTime
  /\ now' = t
  /\ UNCHANGED <<prefersReducedMotion, innerWidth, innerHeight, pointerOver, docVars, wireVars,
                 nodeVars, bgVars, pointerVars, centerVars, cursorVars, flagVars,
                 scrollVars, frameVars, timers, histVars>>

\* ------------------------------------------------------------------------
\* The frame loop
\* ------------------------------------------------------------------------
\* mutant: a tick requesting two frames
FrameTickTwice(h) ==
  /\ h \in rafPending
  /\ nextHandle + 1 <= MaxFrames
  /\ rafPending' = (rafPending \ {h}) \cup {nextHandle, nextHandle + 1}
  /\ animationFrameId' = nextHandle + 1
  /\ nextHandle' = nextHandle + 2
  /\ UNCHANGED <<envVars, docVars, wireVars, nodeVars, bgVars, pointerVars, centerVars,
                 cursorVars, flagVars, scrollVars, timers, histVars>>

\* mutant: a tick that also lets the pointer velocity decay
FrameTickDecay(h) ==
  /\ h \in rafPending
  /\ nextHandle <= MaxFrames
  /\ rafPending' = (rafPending \ {h}) \cup {nextHandle}
  /\ animationFrameId' = nextHandle
  /\ nextHandle' = nextHandle + 1
  /\ mouseVelocity' = <<0, 0>>
  /\ UNCHANGED <<envVars, docVars, wireVars, nodeVars, bgVars, mouseX, mouseY, lastMouseX,
                 lastMouseY, lastMouseMoveTime, centerVars, cursorVars, flagVars,
                 scrollVars, timers, histVars>>

\* the frame callback animate() of startAnimationLoop(), run for the
\* scheduled handle h
FrameTick(h) ==
  /\ h \in rafPending
  /\ nextHandle <= MaxFrames
  /\ LET uc == UpdateCursor([cursor |-> cursor, cursorDot |-> cursorDot,
                              cursorTrail |-> cursorTrail],
                             prefersReducedMotion, mouseX, mouseY)
         ub == UpdateMotionBackground(
                 [gridElement |-> gridElement, layers |-> layers,
                  particles |-> particles, floatingShapes |-> floatingShapes],
                 prefersReducedMotion, mouseX, mouseY, centerX, centerY, mouseVelocity)
     IN /\ cursor' = uc.cursor
        /\ cursorDot' = uc.cursorDot
        /\ cursorTrail' = uc.cursorTrail
        /\ gridElement' = ub.gridElement
        /\ layers' = ub.layers
        /\ particles' = ub.particles
        /\ floatingShapes' = ub.floatingShapes
  \* this.animationFrameId = requestAnimationFrame(animate)
  /\ rafPending' = (rafPending \ {h}) \cup {nextHandle}
  /\ animationFrameId' = nextHandle
  /\ nextHandle' = nextHandle + 1
  /\ UNCHANGED <<envVars, docVars, wireVars, nodeVars, motionBackground, pointerVars,
                 centerVars, flagVars, scrollVars, timers, histVars>>

\* mutant: destroy() forgetting the trail dots
DestroyRemovedNoTrail ==
  (IF cursor # NULL THEN {<<"cursor", 0>>} ELSE {})
    \cup (IF cursorDot # NULL THEN {<<"cursorDot", 0>>} ELSE {})
    \cup (IF motionBackground # NULL THEN {<<"bg", 0>>} ELSE {})

\* mutant: destroy() not cancelling the frame request
DestroyCancelNone == rafPending

\* the nodes destroy() calls remove() on
DestroyRemoved ==
  (IF cursor # NULL THEN {<<"cursor", 0>>} ELSE {})
    \cup (IF cursorDot # NULL THEN {<<"cursorDot", 0>>} ELSE {})
    \cup {<<"trail", i>> : i \in 1..Len(cursorTrail)}
    \cup (IF motionBackground # NULL THEN {<<"bg", 0>>} ELSE {})

\* mutant: destroy() using the handle as a switch: it cancels the request if
\* one is pending and requests a frame otherwise
DestroyCancelSwitch ==
  IF animationFrameId \in rafPending
    THEN rafPending \ {animationFrameId}
    ELSE rafPending \cup {animationFrameId}

\* cancelAnimationFrame(this.animationFrameId), if the handle is truthy
DestroyCancel == IF animationFrameId # 0 THEN rafPending \ {animationFrameId} ELSE rafPending

\* destroy()
Destroy ==
  /\ rafPending' = DestroyCancel
  /\ ioConnected' = FALSE
  /\ bodyNodes' = bodyNodes \ DestroyRemoved
  /\ destroyed' = TRUE
  /\ UNCHANGED <<envVars, docVars, listeners, mutationObserver, ripples, nextRippleId,
                 bgVars, pointerVars, centerVars, cursorVars, flagVars, scrollVars,
                 animationFrameId, nextHandle, timers, lastSample, lastClick>>

\* ------------------------------------------------------------------------
\* Pointer movement
\* ------------------------------------------------------------------------
\* mutant: handleMouseMove without the throttle
HandleMouseMoveUnthrottled(p) ==
  /\ lastMouseMoveTime' = now
  /\ mouseVelocity' = <<p[1] - lastMouseX, p[2] - lastMouseY>>
  /\ lastMouseX' = p[1]
  /\ lastMouseY' = p[2]
  /\ mouseX' = p[1]
  /\ mouseY' = p[2]

\* mutant: handleMouseMove recording the last position before it takes the
\* difference
HandleMouseMoveStaleVelocity(p) ==
  IF now - lastMouseMoveTime < mouseMoveThrottle
    THEN UNCHANGED pointerVars
    ELSE /\ lastMouseMoveTime' = now
         /\ lastMouseX' = p[1]
         /\ lastMouseY' = p[2]
         /\ mouseVelocity' = <<p[1] - lastMouseX', p[2] - lastMouseY'>>
         /\ mouseX' = p[1]
         /\ mouseY' = p[2]

\* handleMouseMove(e), e.clientX = p[1], e.clientY = p[2], Date.now() = now
HandleMouseMove(p) ==
  IF now - lastMouseMoveTime < mouseMoveThrottle
    THEN UNCHANGED pointerVars
    ELSE /\ lastMouseMoveTime' = now
         /\ mouseVelocity' = <<p[1] - lastMouseX, p[2] - lastMouseY>>
         /\ lastMouseX' = p[1]
         /\ lastMouseY' = p[2]
         /\ mouseX' = p[1]
         /\ mouseY' = p[2]

\* handleCardHover(e): the --x / --y custom properties of every card
HandleCardHover(p) ==
  cardSpot' = [c \in DOMAIN cardSpot |->
                 IF InDocument(attached, c)
                   THEN <<p[1] - Rect(c).left, p[2] - Rect(c).top>>
                   ELSE cardSpot[c]]

\* a mousemove event on the document: both listeners run
MouseMove(p) ==
  /\ HandleMouseMove(p)
  /\ HandleCardHover(p)
  /\ lastSample' = [time |-> now, point |-> p,
                    accepted |-> lastMouseMoveTime' # lastMouseMoveTime]
  /\ UNCHANGED <<envVars, attached, classes, posStyle, wireVars, nodeVars, bgVars,
                 centerVars, cursorVars, flagVars, scrollVars, frameVars, timers,
                 destroyed, lastClick>>

\* ------------------------------------------------------------------------
\* Resize, scroll reveal, theme change
\* ------------------------------------------------------------------------
\* el.getBoundingClientRect(): all zero for an element outside the document
BoundingClientRect(att, e) ==
  IF InDocument(att, e) THEN Rect(e) ELSE [left |-> 0, top |-> 0, width |-> 0, height |-> 0]

\* mutant: the viewport test without its threshold
IsElementInViewportNoThreshold(att, e, windowHeight) ==
  LET rect == BoundingClientRect(att, e)
  IN rect.top <= windowHeight /\ rect.top + rect.height >= 0

\* isElementInViewport(el)
IsElementInViewport(att, e, windowHeight) ==
  LET rect == BoundingClientRect(att, e)
  IN rect.top <= windowHeight - ViewportThreshold /\ rect.top + rect.height >= 0

\* mutant: the manual check querying the document again
CheckElementsInViewportLive(cl, att, windowHeight) ==
  IF prefersReducedMotion
    THEN AddClassAll(cl, QueryAll(att, ScrollTagged), "visible")
    ELSE AddClassAll(cl,
           {e \in QueryAll(att, ScrollTagged) : IsElementInViewport(att, e, windowHeight)},
           "visible")

\* checkElementsInViewport(): the class lists it leaves
CheckElementsInViewport(cl, att, windowHeight) ==
  IF prefersReducedMotion
    THEN AddClassAll(cl, animatedElements \cup staggerGroups, "visible")
    ELSE AddClassAll(cl,
           {e \in animatedElements \cup staggerGroups :
              IsElementInViewport(att, e, windowHeight)},
           "visible")

\* handleResize(), window.innerWidth = vp[1], window.innerHeight = vp[2]
Resize(vp) ==
  /\ innerWidth' = vp[1]
  /\ innerHeight' = vp[2]
  /\ centerX' = (vp[1] * Scale) \div 2
  /\ centerY' = (vp[2] * Scale) \div 2
  /\ classes' = CheckElementsInViewport(classes, attached, vp[2])
  /\ UNCHANGED <<prefersReducedMotion, now, pointerOver, attached, posStyle, cardSpot,
                 wireVars, nodeVars, bgVars, pointerVars, cursorVars, flagVars,
                 scrollVars, frameVars, timers, histVars>>

\* mutant: the callback hiding an element that stopped intersecting
IntersectionCallbackToggle(cl, target, isIntersecting) ==
  IF isIntersecting THEN AddClass(cl, target, "visible") ELSE RemoveClass(cl, target, "visible")

\* the IntersectionObserver callback of setupScrollAnimations(), one entry
IntersectionCallback(cl, target, isIntersecting) ==
  IF isIntersecting THEN AddClass(cl, target, "visible") ELSE cl

Intersect(target, isIntersecting) ==
  /\ ioConnected
  /\ target \in animatedElements \cup staggerGroups
  /\ classes' = IntersectionCallback(classes, target, isIntersecting)
  /\ UNCHANGED <<envVars, attached, posStyle, cardSpot, wireVars, nodeVars, bgVars,
                 pointerVars, centerVars, cursorVars, flagVars, scrollVars, frameVars,
                 timers, histVars>>

Timer(kind, el, id, due) == [kind |-> kind, el |-> el, id |-> id, due |-> due]

\* handleThemeChange()
ThemeChange ==
  /\ now + ThemeDelay <= MaxTime
  /\ classes' = AddClass(classes, "body", "theme-transitioning")
  /\ timers' = timers \cup {Timer("theme", "body", 0, now + ThemeDelay)}
  /\ Cardinality(timers') <= MaxTimers
  /\ UNCHANGED <<envVars, attached, posStyle, cardSpot, wireVars, nodeVars, bgVars,
                 pointerVars, centerVars, cursorVars, flagVars, scrollVars, frameVars,
                 histVars>>

\* ------------------------------------------------------------------------
\* Public triggers
\* ------------------------------------------------------------------------
\* addShimmerLoading(element)
AddShimmerLoading(element) ==
  /\ now + ShimmerDelay <= MaxTime
  /\ IF prefersReducedMotion
       THEN UNCHANGED <<classes, timers>>
       ELSE /\ classes' = AddClass(classes, element, "loading")
            /\ timers' = timers \cup {Timer("shimmer", element, 0, now + ShimmerDelay)}
            /\ Cardinality(timers') <= MaxTimers
  /\ UNCHANGED <<envVars, attached, posStyle, cardSpot, wireVars, nodeVars, bgVars,
                 pointerVars, centerVars, cursorVars, flagVars, scrollVars, frameVars,
                 histVars>>

\* triggerPageTransition()
TriggerPageTransition ==
  /\ now + SectionDelay <= MaxTime
  /\ LET sections == QueryAll(attached, {e \in HostElems : IsDashboardSection(e)})
     IN /\ classes' = AddClassAll(classes, sections, "page-transition")
        /\ timers' = timers \cup {Timer("section", sec, 0, now + SectionDelay) : sec \in sections}
  /\ Cardinality(timers') <= MaxTimers
  /\ UNCHANGED <<envVars, attached, posStyle, cardSpot, wireVars, nodeVars, bgVars,
                 pointerVars, centerVars, cursorVars, flagVars, scrollVars, frameVars,
                 histVars>>

\* ------------------------------------------------------------------------
\* Timers
\* ------------------------------------------------------------------------
\* what the callback of timer tm does to the class lists
TimerClasses(cl, tm) ==
  CASE tm.kind = "theme" -> RemoveClass(cl, "body", "theme-transitioning")
    [] tm.kind = "page" -> AddClass(cl, tm.el, "active")
    [] tm.kind = "section" -> AddClass(cl, tm.el, "active")
    [] tm.kind = "shimmer" -> RemoveClass(cl, tm.el, "loading")
    [] OTHER -> cl

\* mutant: the ripple timer removing every ripple
TimerRipplesAll(rs, tm) ==
  IF tm.kind = "ripple" THEN {} ELSE rs

\* what the callback of timer tm does to the ripple nodes: ripple.remove()
TimerRipples(rs, tm) ==
  IF tm.kind = "ripple" THEN {r \in rs : r.id # tm.id} ELSE rs

\* a setTimeout callback runs: tm is due, and no timer due earlier is pending
TimerFire(tm) ==
  /\ tm \in timers
  /\ tm.due <= now
  /\ \A other \in timers : other.due >= tm.due
  /\ timers' = timers \ {tm}
  /\ classes' = TimerClasses(classes, tm)
  /\ ripples' = TimerRipples(ripples, tm)
  /\ UNCHANGED <<envVars, attached, posStyle, cardSpot, wireVars, bodyNodes,
                 nextRippleId, bgVars, pointerVars, centerVars, cursorVars, flagVars,
                 scrollVars, frameVars, histVars>>

\* ------------------------------------------------------------------------
\* Interactive elements: hover, press, click
\* ------------------------------------------------------------------------
\* the elements a bubbling event dispatched at e passes, innermost first
BubblePath(e) == IF Parent(e) = "body" THEN <<e>> ELSE <<e, Parent(e)>>

\* the listener sets that run for a bubbling event at e: the currentTarget of
\* each, in dispatch order
ListenerCalls(ls, e) ==
  LET path == BubblePath(e)
      At(n) == IF n \in DOMAIN ls THEN Rep(n, ls[n]) ELSE <<>>
  IN IF Len(path) = 1 THEN At(path[1]) ELSE At(path[1]) \o At(path[2])

CursorNodes == {"cursor", "cursorDot"}

\* the pointer crosses into el, whose ancestors in the page it is already
\* over: mouseenter on el (does not bubble) runs the listener of
\* setupInteractiveElements / addInteractiveListeners, if el carries one
MouseEnter(el) ==
  /\ InDocument(attached, el)
  /\ el \notin pointerOver
  /\ pointerOver = (IF Parent(el) = "body" THEN {} ELSE {Parent(el)})
  /\ pointerOver' = pointerOver \cup {el}
  /\ IF el \in Interactive /\ listeners[el] > 0
       THEN /\ cursorHover' = TRUE
            /\ classes' = AddClassAll(classes, CursorNodes, "hover")
       ELSE UNCHANGED <<cursorHover, classes>>
  /\ UNCHANGED <<prefersReducedMotion, now, innerWidth, innerHeight, attached, posStyle,
                 cardSpot, wireVars, nodeVars, bgVars, pointerVars, centerVars,
                 cursorVars, cursorVisible, cursorActive, scrollVars, frameVars, timers,
                 histVars>>

\* the pointer crosses out of el, the innermost element it is over:
\* mouseleave on el (does not bubble)
MouseLeave(el) ==
  /\ el \in pointerOver
  /\ Descendants(el) \cap pointerOver = {}
  /\ pointerOver' = pointerOver \ {el}
  /\ IF el \in Interactive /\ listeners[el] > 0
       THEN /\ cursorHover' = FALSE
            /\ classes' = [n \in DOMAIN classes |->
                             IF n \in CursorNodes THEN classes[n] \ {"hover"} ELSE classes[n]]
       ELSE UNCHANGED <<cursorHover, classes>>
  /\ UNCHANGED <<prefersReducedMotion, now, innerWidth, innerHeight, attached, posStyle,
                 cardSpot, wireVars, nodeVars, bgVars, pointerVars, centerVars,
                 cursorVars, cursorVisible, cursorActive, scrollVars, frameVars, timers,
                 histVars>>

\* mousedown at el: the element listeners on the bubble path, then the
\* document listener of setupEventListeners
MouseDown(el) ==
  /\ InDocument(attached, el)
  /\ cursorActive' = TRUE
  /\ classes' = IF Len(ListenerCalls(listeners, el)) > 0
                  THEN AddClassAll(classes, CursorNodes, "active")
                  ELSE classes
  /\ UNCHANGED <<envVars, attached, posStyle, cardSpot, wireVars, nodeVars, bgVars,
                 pointerVars, centerVars, cursorVars, cursorVisible, cursorHover,
                 scrollVars, frameVars, timers, histVars>>

\* mouseup at el
MouseUp(el) ==
  /\ InDocument(attached, el)
  /\ cursorActive' = FALSE
  /\ classes' = IF Len(ListenerCalls(listeners, el)) > 0
                  THEN [n \in DOMAIN classes |->
                          IF n \in CursorNodes THEN classes[n] \ {"active"} ELSE classes[n]]
                  ELSE classes
  /\ UNCHANGED <<envVars, attached, posStyle, cardSpot, wireVars, nodeVars, bgVars,
                 pointerVars, centerVars, cursorVars, cursorVisible, cursorHover,
                 scrollVars, frameVars, timers, histVars>>

\* the document-level mouseenter / mouseleave listeners
DocMouseEnter ==
  /\ cursorVisible' = TRUE
  /\ UNCHANGED <<envVars, docVars, wireVars, nodeVars, bgVars, pointerVars, centerVars,
                 cursorVars, cursorHover, cursorActive, scrollVars, frameVars, timers,
                 histVars>>

DocMouseLeave ==
  /\ cursorVisible' = FALSE
  /\ UNCHANGED <<envVars, docVars, wireVars, nodeVars, bgVars, pointerVars, centerVars,
                 cursorVars, cursorHover, cursorActive, scrollVars, frameVars, timers,
                 histVars>>

\* createRippleEffect(event): the size of the ripple for event.currentTarget
RippleSize(att, currentTarget) ==
  LET rect == BoundingClientRect(att, currentTarget)
  IN Max(rect.width, rect.height)

\* createRippleEffect(event), once per listener call: the ripple nodes created
\* (ids from firstId on), as a sequence in dispatch order
CreateRippleEffects(calls, att, firstId) ==
  IF prefersReducedMotion
    THEN <<>>
    ELSE [i \in 1..Len(calls) |->
            [id |-> firstId + i - 1, host |-> calls[i], size |-> RippleSize(att, calls[i])]]

SeqRange(sq) == {sq[i] : i \in 1..Len(sq)}

\* a click at el: every click listener on the bubble path runs
\* createRippleEffect.  (The ripple appended is reported to the mutation
\* observer, whose callback finds a div that matches nothing.)
Click(el) ==
  /\ InDocument(attached, el)
  /\ now + RippleDelay <= MaxTime
  /\ LET calls == ListenerCalls(listeners, el)
         made == CreateRippleEffects(calls, attached, nextRippleId)
     IN /\ nextRippleId + Len(made) - 1 <= MaxRipples
        /\ ripples' = ripples \cup SeqRange(made)
        /\ nextRippleId' = nextRippleId + Len(made)
        /\ posStyle' = [e \in DOMAIN posStyle |->
                          IF \E i \in 1..Len(made) : made[i].host = e
                            THEN "relative" ELSE posStyle[e]]
        /\ timers' = timers \cup
                       {Timer("ripple", made[i].host, made[i].id, now + RippleDelay) :
                          i \in 1..Len(made)}
        /\ Cardinality(timers') <= MaxTimers
        /\ lastClick' = [target |-> el,
                         spawned |-> [i \in 1..Len(made) |->
                                        [host |-> made[i].host, size |-> made[i].size]]]
  /\ UNCHANGED <<envVars, attached, classes, cardSpot, wireVars, bodyNodes, bgVars,
                 pointerVars, centerVars, cursorVars, flagVars, scrollVars, frameVars,
                 destroyed, lastSample>>

\* ------------------------------------------------------------------------
\* The host page inserts and removes nodes
\* ------------------------------------------------------------------------
\* addInteractiveListeners(el) for every el of els
AddInteractiveListeners(ls, els) ==
  [e \in DOMAIN ls |-> IF e \in els THEN ls[e] + 1 ELSE ls[e]]

\* the MutationObserver callback of observeNewElements() over the added
\* nodes of one batch, in order.  node.querySelectorAll() is a NodeList: for
\* a node that itself matches, interactiveElements.push(node) raises a
\* TypeError, which ends the callback.
RECURSIVE ObserveNewElements(_, _)
ObserveNewElements(ls, added) ==
  IF added = <<>>
    THEN ls
    ELSE LET node == Head(added)
             interactiveElements == {e \in Descendants(node) : Matches(e)}
         IN IF Matches(node)
              THEN ls
              ELSE ObserveNewElements(AddInteractiveListeners(ls, interactiveElements),
                                      Tail(added))

\* the host appends the nodes of batch to body in one script; the observer,
\* if one was started, is then called with the batch
HostInsert(batch) ==
  /\ \A i \in 1..Len(batch) : batch[i] \in Detachable \ attached
  /\ \A i, j \in 1..Len(batch) : i # j => batch[i] # batch[j]
  /\ attached' = attached \cup SeqRange(batch)
  /\ listeners' = IF mutationObserver THEN ObserveNewElements(listeners, batch) ELSE listeners
  /\ \A e \in DOMAIN listeners : listeners'[e] <= MaxListeners
  /\ UNCHANGED <<envVars, classes, posStyle, cardSpot, mutationObserver, ioConnected,
                 nodeVars, bgVars, pointerVars, centerVars, cursorVars, flagVars,
                 scrollVars, frameVars, timers, histVars>>

\* the host removes a top-level node (the observer's callback sees no added
\* node); the pointer is no longer over it, and no mouseleave is sent to a
\* removed node
HostRemove(n) ==
  /\ n \in Detachable \cap attached
  /\ attached' = attached \ {n}
  /\ pointerOver' = pointerOver \ ({n} \cup Descendants(n))
  /\ UNCHANGED <<prefersReducedMotion, now, innerWidth, innerHeight, classes, posStyle, cardSpot, wireVars, nodeVars, bgVars,
                 pointerVars, centerVars, cursorVars, flagVars, scrollVars, frameVars,
                 timers, histVars>>

\* ------------------------------------------------------------------------
\* Specifications
\* ------------------------------------------------------------------------
Batches == {<<a>> : a \in Detachable} \cup {<<a, b>> : a, b \in Detachable}

\* the instants used where only the timers' delays matter
CoarseInstants == {T0 + 300, T0 + 600, T0 + 2600}

\* the instants and insertions used for the lifecycle
LifecycleInstants == {T0 + 600, T0 + 2600}
LifecycleBatches == {<<"late">>, <<"box">>, <<"late", "box">>, <<"box", "late">>}

\* the whole program: every handler, every input
Next ==
  \/ \E t \in Instants : AdvanceTime(t)
  \/ \E h \in rafPending : FrameTick(h)
  \/ Destroy
  \/ \E p \in Points : MouseMove(p)
  \/ \E vp \in Viewports : Resize(vp)
  \/ \E e \in ScrollTagged, b \in BOOLEAN : Intersect(e, b)
  \/ ThemeChange
  \/ \E e \in {"card"} : AddShimmerLoading(e)
  \/ TriggerPageTransition
  \/ \E tm \in timers : TimerFire(tm)
  \/ \E e \in HostElems : MouseEnter(e)
  \/ \E e \in HostElems : MouseLeave(e)
  \/ \E e \in HostElems : MouseDown(e)
  \/ \E e \in HostElems : MouseUp(e)
  \/ DocMouseEnter
  \/ DocMouseLeave
  \/ \E e \in Interactive : Click(e)
  \/ \E batch \in Batches : HostInsert(batch)
  \/ \E n \in Detachable : HostRemove(n)

Spec == Init /\ [][Next]_vars

\* The state space of Spec is the product of the independent features; the
\* claims are checked under the specifications below, each the program
\* restricted to the handlers that read or write what its claims are about.

\* Lifecycle: frame loop, teardown, clicks and ripples, timers, DOM insertion.
\* Timers fire once due and the clock advances (weak fairness).
NextLifecycle ==
  \/ \E t \in LifecycleInstants : AdvanceTime(t)
  \/ \E h \in rafPending : FrameTick(h)
  \/ Destroy
  \/ \E tm \in timers : TimerFire(tm)
  \/ \E e \in Interactive : Click(e)
  \/ \E batch \in LifecycleBatches : HostInsert(batch)
  \/ \E n \in {"box", "late"} : HostRemove(n)

SpecLifecycle ==
  /\ Init
  /\ [][NextLifecycle]_vars
  /\ WF_vars(\E t \in LifecycleInstants : AdvanceTime(t))
  /\ WF_vars(\E tm \in timers : TimerFire(tm))

\* Scroll reveal and class toggling: resize, intersection, theme change,
\* public triggers, timers, teardown.
NextReveal ==
  \/ \E t \in CoarseInstants : AdvanceTime(t)
  \/ \E h \in rafPending : FrameTick(h)
  \/ Destroy
  \/ \E vp \in Viewports : Resize(vp)
  \/ \E e \in ScrollTagged, b \in BOOLEAN : Intersect(e, b)
  \/ ThemeChange
  \/ \E e \in {"card"} : AddShimmerLoading(e)
  \/ TriggerPageTransition
  \/ \E tm \in timers : TimerFire(tm)
  \/ HostInsert(<<"lateSec">>)
  \/ HostRemove("lateSec")

SpecReveal == Init /\ [][NextReveal]_vars

\* Pointer tracking and per-frame arithmetic.
NextPointer ==
  \/ \E t \in Instants : AdvanceTime(t)
  \/ \E h \in rafPending : FrameTick(h)
  \/ Destroy
  \/ \E p \in Points : MouseMove(p)
  \/ \E vp \in Viewports : Resize(vp)

SpecPointer == Init /\ [][NextPointer]_vars

\* Reduced motion: the preference is set when the constructor runs; every
\* kind of event, one input of each.
InitReduced == Init /\ prefersReducedMotion

NextReduced ==
  \/ AdvanceTime(T0 + 600)
  \/ \E h \in rafPending : FrameTick(h)
  \/ Destroy
  \/ MouseMove(<<200, 100>>)
  \/ Resize(<<1200, 900>>)
  \/ ThemeChange
  \/ AddShimmerLoading("card")
  \/ TriggerPageTransition
  \/ \E tm \in timers : TimerFire(tm)
  \/ MouseDown("btn")
  \/ \E e \in Interactive : Click(e)
  \/ HostInsert(<<"late", "box">>)
  \/ HostRemove("box")

SpecReduced == InitReduced /\ [][NextReduced]_vars

\* the target of a mouse button event: the innermost element the pointer is
\* over
PointerTargets == {e \in pointerOver : Descendants(e) \cap pointerOver = {}}

\* Hover and press: the pointer crossing element and window borders, button
\* presses at the element under the pointer, DOM insertion, teardown.
NextHover ==
  \/ \E e \in HostElems : MouseEnter(e)
  \/ \E e \in HostElems : MouseLeave(e)
  \/ \E e \in PointerTargets : MouseDown(e)
  \/ \E e \in PointerTargets : MouseUp(e)
  \/ pointerOver = {} /\ DocMouseEnter
  \/ pointerOver = {} /\ DocMouseLeave
  \/ \E h \in rafPending : FrameTick(h)
  \/ Destroy
  \/ \E batch \in {<<"late">>, <<"box">>} : HostInsert(batch)
  \/ \E n \in {"box", "late"} : HostRemove(n)

SpecHover == Init /\ [][NextHover]_vars

\* the instants of pointer samples that straddle the throttle interval
SettleInstants == {T0 + 4, T0 + 8, T0 + 12}

\* Pointer samples followed by quiet: the clock advances and scheduled
\* frames run (weak fairness), pointer samples may stop at any time.
NextSettle ==
  \/ \E t \in SettleInstants : AdvanceTime(t)
  \/ \E h \in rafPending : FrameTick(h)
  \/ \E p \in Points : MouseMove(p)

SpecSettle ==
  /\ Init
  /\ [][NextSettle]_vars
  /\ WF_vars(\E t \in SettleInstants : AdvanceTime(t))
  /\ WF_vars(\E h \in rafPending : FrameTick(h))

\* ------------------------------------------------------------------------
\* Properties
\* ------------------------------------------------------------------------
Visible(e) == "visible" \in classes[e]

\* C1: with reduced motion active at construction, in every reachable state
\* no background container, grid, layer, particle, shape, cursor ring, cursor
\* dot, trail node or ripple exists: the node fields stay null, the node
\* lists stay empty and body holds no node of the component.
C1_NoNodesUnderReducedMotion ==
  prefersReducedMotion =>
    /\ motionBackground = NULL
    /\ gridElement = NULL
    /\ cursor = NULL
    /\ cursorDot = NULL
    /\ layers = <<>>
    /\ particles = <<>>
    /\ floatingShapes = <<>>
    /\ cursorTrail = <<>>
    /\ bodyNodes = {}
    /\ ripples = {}
    /\ nextRippleId = 1

\* reduced motion, after frame ticks, an accepted pointer move, a click on a
\* matched element, a DOM insertion, a theme change and destroy()
C1_Witness ==
  /\ prefersReducedMotion
  /\ destroyed
  /\ nextHandle > 2
  /\ lastSample.accepted
  /\ lastClick.target = "btn"
  /\ "late" \in attached
  /\ "theme-transitioning" \in classes["body"]

\* C2: with reduced motion active, every scroll-tagged element present at
\* setup is marked visible in every state from the return of init() on.
C2_VisibleWhenInitReturns ==
  prefersReducedMotion => \A e \in animatedElements \cup staggerGroups : Visible(e)

\* C3: a scroll-tagged element that is marked visible is still marked
\* visible after every step.
C3_VisibleIsPermanent ==
  [][\A e \in ScrollTagged : Visible(e) => "visible" \in classes'[e]]_vars

\* grp was marked visible, the viewport is again too short to show it, and
\* destroy() has run
C3_Witness ==
  /\ Visible("grp")
  /\ ~prefersReducedMotion
  /\ ~IsElementInViewport(attached, "grp", innerHeight)
  /\ destroyed

\* C4: after destroy() no node created by the background and cursor builders
\* is attached to the document.
C4_NoResidualNodes == destroyed => bodyNodes = {}

\* destroy() has run on an instance that had built background, cursor, dot
\* and 8 trail dots
C4_Witness ==
  /\ destroyed
  /\ motionBackground # NULL
  /\ cursor # NULL
  /\ cursorDot # NULL
  /\ Len(cursorTrail) = maxTrailLength
  /\ Len(layers) = NumLayers

\* C5: once destroy() has returned no frame callback is scheduled, and no
\* later step runs a frame tick (none requests a frame or changes a cursor
\* or background transform).
C5_DestroyCancelsFrameLoop ==
  [][destroyed' =>
       (/\ rafPending' = {}
        /\ destroyed => UNCHANGED <<nextHandle, animationFrameId, cursorVars, bgVars>>)]_vars

\* destroy() ran after at least one rescheduled tick, the loop being live
C5_Witness ==
  /\ destroyed
  /\ nextHandle > 2
  /\ animationFrameId = nextHandle - 1
  /\ rafPending = {}

\* C6: after destroy() has returned no step creates or removes a node of the
\* component, toggles a class or sets a style.
C6_NoDomMutationAfterDestroy ==
  [][destroyed =>
       UNCHANGED <<classes, posStyle, cardSpot, bodyNodes, ripples, cursorVars, bgVars>>]_vars

\* C7: with reduced motion inactive, the last click on a matched element
\* spawned exactly one ripple, on the clicked element, of width and height
\* max(width, height) of its bounding box.
C7_OneRipplePerClick ==
  (~prefersReducedMotion /\ lastClick.target # "") =>
    /\ Len(lastClick.spawned) = 1
    /\ lastClick.spawned[1].host = lastClick.target
    /\ lastClick.spawned[1].size =
         Max(Rect(lastClick.target).width, Rect(lastClick.target).height)

HasRipple(id) == \E r \in ripples : r.id = id

RippleTimers(r) == {tm \in timers : tm.kind = "ripple" /\ tm.id = r.id}

\* C8: every ripple has its own pending timer, set to 600 ms after the click
\* (also across destroy()); a ripple leaves its element only in the step in
\* which that timer, being due, fires, and that step changes nothing but the
\* ripple and the timer; and every ripple is eventually removed.
C8_RippleRemovedByItsTimer ==
  /\ [](\A r \in ripples : RippleTimers(r) # {})
  /\ [][
        /\ \A r \in ripples' \ ripples :
             RippleTimers(r)' = {Timer("ripple", r.host, r.id, now + RippleDelay)}
        /\ \A r \in ripples \ ripples' :
             \E tm \in RippleTimers(r) :
               /\ tm.due <= now
               /\ timers' = timers \ {tm}
               /\ ripples' = ripples \ {r}
               /\ UNCHANGED <<envVars, docVars, wireVars, bodyNodes, nextRippleId,
                              bgVars, pointerVars, centerVars, cursorVars, flagVars,
                              scrollVars, frameVars, histVars>>
     ]_vars
  /\ \A id \in 1..MaxRipples : HasRipple(id) ~> ~HasRipple(id)

\* a ripple was spawned, destroy() has run, and the ripple is gone
C8_Witness ==
  /\ destroyed
  /\ nextRippleId > 1
  /\ ripples = {}
  /\ \A tm \in timers : tm.kind # "ripple"

\* C9: a pointer sample is accepted only if at least 8 ms have passed since
\* the previously accepted one: accepted samples are at least 8 ms apart,
\* position and velocity change only with an accepted sample, and a sample
\* arriving less than 8 ms after an accepted one changes none of them.
C9_PointerThrottle ==
  [][
     /\ lastMouseMoveTime' # lastMouseMoveTime =>
          /\ lastMouseMoveTime' = now
          /\ lastMouseMoveTime' - lastMouseMoveTime >= mouseMoveThrottle
     /\ <<mouseX, mouseY, mouseVelocity, lastMouseX, lastMouseY>>'
           # <<mouseX, mouseY, mouseVelocity, lastMouseX, lastMouseY>> =>
          lastMouseMoveTime' # lastMouseMoveTime
     /\ (lastSample' # lastSample /\ now - lastMouseMoveTime < mouseMoveThrottle) =>
          /\ UNCHANGED pointerVars
          /\ ~lastSample'.accepted
  ]_vars

\* samples at T0 and T0 + 8 were accepted, the one at T0 + 12 was dropped
C9_Witness ==
  /\ lastMouseMoveTime = T0 + 8
  /\ <<mouseX, mouseY>> = <<200, 100>>
  /\ mouseVelocity = <<200, 60>>
  /\ lastSample = [time |-> T0 + 12, point |-> <<0, 40>>, accepted |-> FALSE]

\* C10: on every frame tick with reduced motion inactive the ring moves to
\* p + (raw - p) * 0.1 on each axis, p the ring position of the previous
\* tick (positions in 1/Scale px: 10 * (new - p) = raw * Scale - p).
C10_RingSmoothing ==
  [][(nextHandle' # nextHandle /\ ~prefersReducedMotion /\ cursor # NULL) =>
       (/\ 10 * (cursor'[1].transform[1] - cursor[1].transform[1])
             = mouseX * Scale - cursor[1].transform[1]
        /\ 10 * (cursor'[1].transform[2] - cursor[1].transform[2])
             = mouseY * Scale - cursor[1].transform[2])]_vars

\* C11: on every frame tick with reduced motion inactive, trail dot i
\* (1 <= i <= 7; cursorTrail[i + 1] here, sequences being 1-based) moves to
\* q + (t - q) * 0.3 on each axis, q its own position before the tick and t
\* the position of its predecessor before the tick (positions in 1/Scale px:
\* 10 * (new - q) = 3 * (t - q)).
C11_TrailSmoothing ==
  [][(nextHandle' # nextHandle /\ ~prefersReducedMotion /\ cursor # NULL) =>
       \A i \in 2..Len(cursorTrail) : \A axis \in 1..2 :
         10 * (cursorTrail'[i].transform[axis] - cursorTrail[i].transform[axis])
           = 3 * (cursorTrail[i - 1].transform[axis] - cursorTrail[i].transform[axis])]_vars

\* C12: the pointer position held by the instance is that of the latest
\* accepted sample, and after every frame tick with reduced motion inactive
\* the cursor dot and trail dot 0 are exactly at it (in 1/Scale px).
C12_DotAndHeadAtRaw ==
  /\ [](lastSample.accepted => <<mouseX, mouseY>> = lastSample.point)
  /\ [][(nextHandle' # nextHandle /\ ~prefersReducedMotion) =>
          (/\ cursorDot' # NULL
           /\ cursorDot'[1].transform = <<mouseX * Scale, mouseY * Scale>>
           /\ cursorTrail'[1].transform = <<mouseX * Scale, mouseY * Scale>>)]_vars

\* a tick has run after the sample (200, 100) was accepted: dot and head
\* carry it, the ring does not
C12_Witness ==
  /\ ~prefersReducedMotion
  /\ nextHandle > 2
  /\ lastSample.accepted
  /\ lastSample.point = <<200, 100>>
  /\ cursorDot[1].transform = <<200 * Scale, 100 * Scale>>
  /\ cursorTrail[1].transform = <<200 * Scale, 100 * Scale>>
  /\ cursor[1].transform # <<200 * Scale, 100 * Scale>>

\* C13: with reduced motion inactive, every matched element that is in the
\* document, whether present at setup or inserted later (itself or inside an
\* inserted node, alone or after other nodes of the same batch), carries the
\* hover/active/click listeners.
C13_InsertedElementsWired ==
  ~prefersReducedMotion =>
    \A e \in Interactive : InDocument(attached, e) => listeners[e] >= 1

\* C14: a scroll-tagged element that was not in the document at setup is
\* never marked visible.
C14_LateScrollElementNeverVisible ==
  \A e \in ScrollTagged : ~InDocument(SetupAttached, e) => ~Visible(e)

\* lateSec is in the document, inside the viewport of the last resize, which
\* has marked the setup-time elements visible
C14_Witness ==
  /\ "lateSec" \in attached
  /\ innerHeight = 900
  /\ IsElementInViewport(attached, "lateSec", innerHeight)
  /\ Visible("sec")
  /\ Visible("grp")
  /\ ~Visible("lateSec")

\* C15: while a theme-change signal is less than 600 ms old (its timer is
\* pending and not yet due) the body carries theme-transitioning.
C15_ThemeClassForFullWindow ==
  \A tm \in timers :
    (tm.kind = "theme" /\ now < tm.due) => "theme-transitioning" \in classes["body"]

\* the style block the script appends to head when it is loaded; nothing
\* ever removes it
RippleStyles == {<<"style", 0>>}

\* the nodes created by the component that are attached to the document
ComponentNodes == bodyNodes \cup {<<"ripple", r.id>> : r \in ripples} \cup RippleStyles

\* C16: every attached node the component created is one that destroy()
\* removes (one of the tracked cursor, dot, trail and background nodes).
C16_EveryNodeTracked == ComponentNodes \subseteq DestroyRemoved

\* C17: a click changes an element's inline position only from unset, to
\* relative; an element whose position is set keeps it.
C17_PositionSetOnlyWhenUnset ==
  [][\A e \in Interactive :
       posStyle'[e] # posStyle[e] => (posStyle[e] = "" /\ posStyle'[e] = "relative")]_vars

\* C18: at most one frame callback is scheduled; until destroy() the stored
\* handle is the scheduled one; a frame is requested only by a tick, which
\* consumes the scheduled callback and requests exactly one successor.
C18_SingleFrameCallback ==
  /\ [](/\ Cardinality(rafPending) <= 1
        /\ rafPending \subseteq {animationFrameId}
        /\ ~destroyed => rafPending = {animationFrameId})
  /\ [][nextHandle' # nextHandle =>
          (/\ rafPending = {animationFrameId}
           /\ nextHandle' = nextHandle + 1
           /\ animationFrameId' = nextHandle
           /\ rafPending' = {nextHandle})]_vars

\* the loop is live after MaxFrames - 1 rescheduled ticks
C18_Witness ==
  /\ ~destroyed
  /\ nextHandle = MaxFrames + 1
  /\ rafPending = {MaxFrames}
  /\ animationFrameId = MaxFrames

\* C19: a frame tick run when reduced motion is active or the cursor nodes
\* do not exist changes no cursor or trail transform; one run when reduced
\* motion is active or there is no layer changes no grid, layer, particle or
\* shape transform; in either case nothing else changes but the frame
\* request: the tick's callback is consumed and its successor scheduled.
C19_SkippedTickOnlyReschedules ==
  [][nextHandle' # nextHandle =>
       (/\ (prefersReducedMotion \/ cursor = NULL \/ cursorDot = NULL) =>
             UNCHANGED cursorVars
        /\ (prefersReducedMotion \/ Len(layers) = 0) =>
             UNCHANGED bgVars
        /\ (prefersReducedMotion \/ cursor = NULL \/ cursorDot = NULL \/ Len(layers) = 0) =>
             (/\ UNCHANGED <<envVars, docVars, wireVars, nodeVars, pointerVars,
                            centerVars, flagVars, scrollVars, timers, histVars>>
              /\ rafPending' = {nextHandle}
              /\ animationFrameId' = nextHandle))]_vars

\* reduced motion: every tick the bound allows has run after a pointer
\* sample was accepted and the window resized
C19_Witness ==
  /\ prefersReducedMotion
  /\ cursor = NULL
  /\ Len(layers) = 0
  /\ nextHandle = MaxFrames + 1
  /\ lastSample.accepted
  /\ mouseVelocity = <<200, 100>>
  /\ innerWidth = 1200

C21_VelocityIsLastDelta ==
  /\ [](<<lastMouseX, lastMouseY>> = <<mouseX, mouseY>>)
  /\ [][IF lastSample' # lastSample /\ lastSample'.accepted
          THEN /\ <<mouseX', mouseY'>> = lastSample'.point
               /\ mouseVelocity' = <<mouseX' - mouseX, mouseY' - mouseY>>
               /\ lastMouseMoveTime' = lastSample'.time
          ELSE UNCHANGED pointerVars]_vars

\* (200,100) was accepted at T0, (0,40) at T0 + 8, and (200,100) was
\* rejected at T0 + 12
C21_Witness ==
  /\ lastMouseMoveTime = T0 + 8
  /\ <<mouseX, mouseY>> = <<0, 40>>
  /\ mouseVelocity = <<-200, -60>>
  /\ lastSample = [time |-> T0 + 12, point |-> <<200, 100>>, accepted |-> FALSE]

\* raw - center + 2 * velocity on one axis, in 1/Scale px
Offset(raw, center, velocity) == raw * Scale - center + 2 * velocity * Scale

Abs(x) == IF x < 0 THEN -x ELSE x

RingDistance(c, x, y) ==
  Abs(c[1].transform[1] - x * Scale) + Abs(c[1].transform[2] - y * Scale)

\* C23: a frame tick run with the ring away from the raw position brings
\* the ring strictly closer to it.
C23_RingConverges ==
  [][(/\ nextHandle' # nextHandle
      /\ ~prefersReducedMotion
      /\ cursor # NULL
      /\ RingDistance(cursor, mouseX, mouseY) # 0) =>
       RingDistance(cursor', mouseX, mouseY) < RingDistance(cursor, mouseX, mouseY)]_vars

\* the pointer is over an element that carries the hover listeners
OverWired == \E e \in pointerOver \cap Interactive : listeners[e] > 0

\* C24: with the cursor nodes present, the hover flag is set, and ring and
\* dot carry the hover class, exactly when the pointer is over at least one
\* wired interactive element.
C24_HoverIffOverWired ==
  cursor # NULL =>
    /\ cursorHover <=> OverWired
    /\ \A n \in CursorNodes : "hover" \in classes[n] <=> OverWired

\* the pointer-move events that can be the last one delivered
SettleSamples == [time : {T0} \cup SettleInstants, point : Points, accepted : BOOLEAN]

C26_FlagsMatchClasses ==
  (cursor # NULL /\ cursorDot # NULL) =>
    \A n \in CursorNodes :
      /\ cursorActive <=> "active" \in classes[n]
      /\ cursorHover <=> "hover" \in classes[n]

\* C27: a destroy() called after destroy() has run changes nothing.
C27_DestroyIdempotent ==
  [][(destroyed /\ Destroy) => UNCHANGED vars]_vars

\* destroy() has run on a live loop and can be called again, while a ripple
\* made by a click, its timer and an inserted element are still there
C27_Witness ==
  /\ destroyed
  /\ ENABLED Destroy
  /\ rafPending = {}
  /\ bodyNodes = {}
  /\ nextHandle > 2
  /\ ripples # {}
  /\ timers # {}
  /\ "late" \in attached
====
